---- MODULE Spec2Model ----
(***************************************************************************)
(* Model of src/src/lambda_function.py: the API Gateway entry point        *)
(* lambda_handler, its error wrapper handle_errors, the routes table and   *)
(* the five project handlers over the DynamoDB table.                      *)
(*                                                                         *)
(* Strings are sequences of symbols.  The symbol "projects" stands for the *)
(* eight letters of that word and "/" for the slash, so that startswith    *)
(* and split are computed on the sequence as Python computes them on the   *)
(* characters.  Python values are records tagged with their type (field t) *)
(* and DynamoDB attribute values are records tagged S, N or NULL.          *)
(***************************************************************************)
EXTENDS Integers, Sequences, FiniteSets, TLC

VARIABLES table, uuids, created, last

vars == <<table, uuids, created, last>>

(* ------------------------------ bounds -------------------------------- *)

\* At most this many identifiers are drawn from uuid.uuid4 in one behaviour.
MaxCreate == 2
\* Longest request path, in symbols, of the routing workload.
MaxPathLen == 5

(* --------------------------- Python values ----------------------------- *)

None == [t |-> "None"]
PyStr(s) == [t |-> "str", v |-> s]
PyInt(n) == [t |-> "int", v |-> n]
PyFloat(x) == [t |-> "float", v |-> x]
PyDecimal(n) == [t |-> "Decimal", v |-> n]
PyDict(f) == [t |-> "dict", v |-> f]
\* A list, as the set of its elements: no operation reads their order.
PyList(s) == [t |-> "list", v |-> s]
\* A str holding the JSON text that encodes the value j.
JsonText(j) == [t |-> "str", json |-> j]
\* A str holding text that is not JSON.
Malformed == PyStr(<<"{">>)

\* An outcome of a Python call: a returned value or a raised Exception.
Return(x) == [raised |-> FALSE, value |-> x]
Raise(kind, text) == [raised |-> TRUE, exc |-> <<kind, text>>]
\* str(e) of a raised exception: its text, a sequence of pieces.
str(e) == e[2]

\* d.get(key) of a Python object d (dict.get; any other type has no get).
get(d, key) ==
  IF d.t = "dict"
    THEN Return(IF key \in DOMAIN d.v THEN d.v[key] ELSE None)
    ELSE Raise("AttributeError", <<d.t, " object has no attribute 'get'">>)

\* s.startswith(prefix) on sequences of symbols.
startswith(s, prefix) ==
  /\ Len(s) >= Len(prefix)
  /\ SubSeq(s, 1, Len(prefix)) = prefix

RECURSIVE split(_, _)
\* s.split(sep): the pieces of s between the occurrences of the symbol sep.
split(s, sep) ==
  IF \A i \in 1..Len(s) : s[i] # sep
    THEN <<s>>
    ELSE LET i == CHOOSE k \in 1..Len(s) :
                    /\ s[k] = sep
                    /\ \A j \in 1..(k - 1) : s[j] # sep
         IN <<SubSeq(s, 1, i - 1)>> \o split(SubSeq(s, i + 1, Len(s)), sep)

\* Mutant of loads: an absent body is read as the empty object, as
\* json.loads(body or '{}') would.
loads_or_empty(s) ==
  IF s.t # "str"
    THEN Return(PyDict(<<>>))
    ELSE IF "json" \in DOMAIN s
      THEN Return(s.json)
      ELSE Raise("JSONDecodeError", <<"Expecting property name">>)

\* json.loads(s): TypeError for None, JSONDecodeError for text that is not
\* JSON, the encoded value otherwise.
loads(s) ==
  IF s.t # "str"
    THEN Raise("TypeError",
               <<"the JSON object must be str, bytes or bytearray, not ", s.t>>)
    ELSE IF "json" \in DOMAIN s
      THEN Return(s.json)
      ELSE Raise("JSONDecodeError", <<"Expecting property name">>)

RECURSIVE encodable(_)
\* Whether json.dumps has an encoding for x: it has none for a Decimal.
encodable(x) ==
  CASE x.t = "Decimal" -> FALSE
    [] x.t = "dict" -> \A k \in DOMAIN x.v : encodable(x.v[k])
    [] x.t = "list" -> \A y \in x.v : encodable(y)
    [] OTHER -> TRUE

\* json.dumps(x).
dumps(x) ==
  IF encodable(x)
    THEN Return(JsonText(x))
    ELSE Raise("TypeError", <<"Object of type Decimal is not JSON serializable">>)

(* ------------------------- the DynamoDB table -------------------------- *)

\* The table maps the id of each stored item to its attributes; an attribute
\* value is tagged with its DynamoDB type.  A call of the table returns or
\* raises, and leaves the table as in the field table.
Ok(x, tbl) == [raised |-> FALSE, value |-> x, table |-> tbl]
Err(kind, text, tbl) == [raised |-> TRUE, exc |-> <<kind, text>>, table |-> tbl]

\* boto3's TypeSerializer, on the scalars a request body can hold.
serialize(x) ==
  CASE x.t = "str" -> [t |-> "S", v |-> x.v]
    [] x.t = "int" -> [t |-> "N", v |-> x.v]
    [] x.t = "None" -> [t |-> "NULL"]

\* boto3's TypeDeserializer: a number comes back as a Decimal.
deserialize(a) ==
  CASE a.t = "S" -> PyStr(a.v)
    [] a.t = "N" -> PyDecimal(a.v)
    [] a.t = "NULL" -> None

\* The serializer has no DynamoDB type for a float.
serializable(values) == \A k \in DOMAIN values : values[k].t # "float"

FloatError == <<"Float types are not supported. Use Decimal types instead.">>
ServiceError == <<"An error occurred when calling the operation">>
EmptyKeyError == <<"The AttributeValue for a key attribute cannot contain an empty string value. Key: id">>

\* The item as Python reads it back.
python_item(attrs) == PyDict([k \in DOMAIN attrs |-> deserialize(attrs[k])])

\* table.put_item(Item=item): the item replaces whatever is stored under its id.
put_item(tbl, item, fault) ==
  IF ~serializable(item) THEN Err("TypeError", FloatError, tbl)
  ELSE IF fault THEN Err("ClientError", ServiceError, tbl)
  ELSE LET key == item["id"].v
       IN Ok(None,
             [i \in DOMAIN tbl \cup {key} |->
                IF i = key THEN [k \in DOMAIN item |-> serialize(item[k])]
                           ELSE tbl[i]])

\* table.scan(): every stored item.
scan(tbl, fault) ==
  IF fault THEN Err("ClientError", ServiceError, tbl)
  ELSE Ok(PyDict([Items |-> PyList({python_item(tbl[i]) : i \in DOMAIN tbl})]), tbl)

\* table.get_item(Key={'id': key}): the response has an Item when one is stored.
get_item(tbl, key, fault) ==
  IF fault THEN Err("ClientError", ServiceError, tbl)
  ELSE IF key = <<>> THEN Err("ClientError", EmptyKeyError, tbl)
  ELSE IF key \in DOMAIN tbl
    THEN Ok(PyDict([Item |-> python_item(tbl[key])]), tbl)
    ELSE Ok(PyDict(<<>>), tbl)

\* table.update_item(Key={'id': key}, UpdateExpression="SET ..."): sets the
\* named attributes of the item under key; DynamoDB adds the item when none is
\* stored under key.
update_item(tbl, key, values, fault) ==
  IF ~serializable(values) THEN Err("TypeError", FloatError, tbl)
  ELSE IF fault THEN Err("ClientError", ServiceError, tbl)
  ELSE IF key = <<>> THEN Err("ClientError", EmptyKeyError, tbl)
  ELSE LET old == IF key \in DOMAIN tbl THEN tbl[key]
                                        ELSE [k \in {"id"} |-> [t |-> "S", v |-> key]]
           new == [k \in DOMAIN old \cup DOMAIN values |->
                     IF k \in DOMAIN values THEN serialize(values[k]) ELSE old[k]]
       IN Ok(None, [i \in DOMAIN tbl \cup {key} |-> IF i = key THEN new ELSE tbl[i]])

\* Mutant of delete_item: the call returns and the item stays.
delete_item_keeps(tbl, key, fault) ==
  IF fault THEN Err("ClientError", ServiceError, tbl)
  ELSE IF key = <<>> THEN Err("ClientError", EmptyKeyError, tbl)
  ELSE Ok(None, tbl)

\* table.delete_item(Key={'id': key}).
delete_item(tbl, key, fault) ==
  IF fault THEN Err("ClientError", ServiceError, tbl)
  ELSE IF key = <<>> THEN Err("ClientError", EmptyKeyError, tbl)
  ELSE Ok(None, [i \in DOMAIN tbl \ {key} |-> tbl[i]])

\* str(uuid.uuid4()): an identifier that no earlier call returned; n calls
\* were made before this one.
UuidSymbols == <<"u1", "u2", "u3", "u4">>
\* Mutant of uuid4: every call returns the same identifier.
uuid4_fixed(n) == <<UuidSymbols[1]>>
uuid4(n) == <<UuidSymbols[n + 1]>>

(* ------------------------------ handlers ------------------------------- *)

\* event.get(key) of the event, a dict that may lack the key.
event_get(event, key) == IF key \in DOMAIN event THEN event[key] ELSE None

\* Python's truth test of `not x` for the values get_item returns.
falsy(x) == x.t = "None" \/ (x.t = "dict" /\ DOMAIN x.v = {})

\* A response of the API.
Response(code, payload) == [statusCode |-> code, body |-> payload]
Message(text) == PyDict([message |-> PyStr(text)])

\* What a handler did: it returned a response or raised (out), left the table
\* as in table, had drawn uuids identifiers and called the table ops times.
Result(out, tbl, n, ops) == [out |-> out, table |-> tbl, uuids |-> n, ops |-> ops]
Raised(r) == [raised |-> TRUE, exc |-> r.exc]

\* return {'statusCode': code, 'body': json.dumps(payload)}
respond(code, payload, tbl, n, ops) ==
  LET text == dumps(payload)
  IN IF text.raised THEN Result(text, tbl, n, ops)
     ELSE Result(Return(Response(code, text.value)), tbl, n, ops)

ItemFields == {"name", "description", "status", "createdAt"}
UpdateFields == {"name", "description", "status"}

create_project(event, tbl, n, fault) ==
  LET body == loads(event_get(event, "body"))
  IN IF body.raised THEN Result(body, tbl, n, 0)
     ELSE IF get(body.value, "name").raised
       THEN Result(get(body.value, "name"), tbl, n + 1, 0)
     ELSE LET item == [k \in ItemFields \cup {"id"} |->
                         IF k = "id" THEN PyStr(uuid4(n))
                                     ELSE get(body.value, k).value]
              put == put_item(tbl, item, fault)
          IN IF put.raised THEN Result(Raised(put), put.table, n + 1, 1)
             ELSE respond(201, PyDict(item), put.table, n + 1, 1)

get_all_projects(event, tbl, n, fault) ==
  LET response == scan(tbl, fault)
  IN IF response.raised THEN Result(Raised(response), response.table, n, 1)
     ELSE respond(200, response.value.v["Items"], response.table, n, 1)

get_project_by_id(event, tbl, n, fault) ==
  LET project_id == event["pathParameters"].v["id"].v
      response == get_item(tbl, project_id, fault)
  IN IF response.raised THEN Result(Raised(response), response.table, n, 1)
     ELSE LET item == get(response.value, "Item").value
          IN IF falsy(item)
               THEN respond(404, Message(<<"Project not found">>),
                            response.table, n, 1)
               ELSE respond(200, item, response.table, n, 1)

update_project(event, tbl, n, fault) ==
  LET project_id == event["pathParameters"].v["id"].v
      body == loads(event_get(event, "body"))
  IN IF body.raised THEN Result(body, tbl, n, 0)
     ELSE IF get(body.value, "name").raised
       THEN Result(get(body.value, "name"), tbl, n, 0)
     ELSE LET values == [k \in UpdateFields |-> get(body.value, k).value]
              upd == update_item(tbl, project_id, values, fault)
          IN IF upd.raised THEN Result(Raised(upd), upd.table, n, 1)
             ELSE respond(200, Message(<<"Project updated successfully">>),
                          upd.table, n, 1)

delete_project(event, tbl, n, fault) ==
  LET project_id == event["pathParameters"].v["id"].v
      del == delete_item(tbl, project_id, fault)
  IN IF del.raised THEN Result(Raised(del), del.table, n, 1)
     ELSE respond(200, Message(<<"Project deleted successfully">>),
                  del.table, n, 1)

(* ------------------------------- router -------------------------------- *)

ProjectsPath == <<"/", "projects">>
ProjectPath == <<"/", "projects", "/", "{id}">>

\* The routes the @route decorators register: path, then method, to handler.
routes ==
  [p \in {ProjectsPath, ProjectPath} |->
     IF p = ProjectsPath
       THEN [m \in {<<"POST">>, <<"GET">>} |->
               IF m = <<"POST">> THEN "create_project" ELSE "get_all_projects"]
       ELSE [m \in {<<"GET">>, <<"PUT">>, <<"DELETE">>} |->
               CASE m = <<"GET">> -> "get_project_by_id"
                 [] m = <<"PUT">> -> "update_project"
                 [] m = <<"DELETE">> -> "delete_project"]]

NoHandler == "None"

\* Mutant of resolve: the number of path parts is not checked.
resolve_any_depth(event) ==
  LET http_method == event_get(event, "httpMethod")
      path == event_get(event, "path")
  IN IF path.t # "str"
       THEN Raise("AttributeError",
                  <<path.t, " object has no attribute 'startswith'">>)
       ELSE LET path_parts == split(path.v, "/")
                dynamic == /\ startswith(path.v, <<"/", "projects", "/">>)
                           /\ path_parts[2] = <<"projects">>
                handler_path == IF dynamic THEN ProjectPath ELSE path.v
                by_method == IF handler_path \in DOMAIN routes
                               THEN routes[handler_path] ELSE <<>>
            IN Return([handler |->
                         IF http_method.t = "str" /\ http_method.v \in DOMAIN by_method
                           THEN by_method[http_method.v] ELSE NoHandler,
                       path_parameters |->
                         IF dynamic THEN PyDict([id |-> PyStr(path_parts[3])])
                                    ELSE None])

\* Mutant of resolve: id is bound to the part before the last one.
resolve_wrong_part(event) ==
  LET http_method == event_get(event, "httpMethod")
      path == event_get(event, "path")
  IN IF path.t # "str"
       THEN Raise("AttributeError",
                  <<path.t, " object has no attribute 'startswith'">>)
       ELSE LET path_parts == split(path.v, "/")
                dynamic == /\ startswith(path.v, <<"/", "projects", "/">>)
                           /\ Len(path_parts) = 3
                           /\ path_parts[2] = <<"projects">>
                handler_path == IF dynamic THEN ProjectPath ELSE path.v
                by_method == IF handler_path \in DOMAIN routes
                               THEN routes[handler_path] ELSE <<>>
            IN Return([handler |->
                         IF http_method.t = "str" /\ http_method.v \in DOMAIN by_method
                           THEN by_method[http_method.v] ELSE NoHandler,
                       path_parameters |->
                         IF dynamic THEN PyDict([id |-> PyStr(path_parts[2])])
                                    ELSE None])

\* Lines 53-67 of lambda_handler: the handler and the path parameters the
\* method and the path resolve to; path.startswith raises when path is None.
resolve(event) ==
  LET http_method == event_get(event, "httpMethod")
      path == event_get(event, "path")
  IN IF path.t # "str"
       THEN Raise("AttributeError",
                  <<path.t, " object has no attribute 'startswith'">>)
       ELSE LET path_parts == split(path.v, "/")
                dynamic == /\ startswith(path.v, <<"/", "projects", "/">>)
                           /\ Len(path_parts) = 3
                           /\ path_parts[2] = <<"projects">>
                handler_path == IF dynamic THEN ProjectPath ELSE path.v
                by_method == IF handler_path \in DOMAIN routes
                               THEN routes[handler_path] ELSE <<>>
            IN Return([handler |->
                         IF http_method.t = "str" /\ http_method.v \in DOMAIN by_method
                           THEN by_method[http_method.v] ELSE NoHandler,
                       path_parameters |->
                         IF dynamic THEN PyDict([id |-> PyStr(path_parts[3])])
                                    ELSE None])

\* handler(event) for the handler of that name.
call(handler, event, tbl, n, fault) ==
  CASE handler = "create_project" -> create_project(event, tbl, n, fault)
    [] handler = "get_all_projects" -> get_all_projects(event, tbl, n, fault)
    [] handler = "get_project_by_id" -> get_project_by_id(event, tbl, n, fault)
    [] handler = "update_project" -> update_project(event, tbl, n, fault)
    [] handler = "delete_project" -> delete_project(event, tbl, n, fault)

\* The body of lambda_handler.
lambda_handler(event, tbl, n, fault) ==
  LET found == resolve(event)
  IN IF found.raised THEN Result(found, tbl, n, 0)
     ELSE IF found.value.handler = NoHandler
       THEN respond(404, Message(<<"Not Found">>), tbl, n, 0)
     ELSE call(found.value.handler,
               [k \in DOMAIN event \cup {"pathParameters"} |->
                  IF k = "pathParameters" THEN found.value.path_parameters
                                          ELSE event[k]],
               tbl, n, fault)

\* Mutant of handle_errors: the failure is raised again.
handle_errors_reraise(out) == out

\* Mutant of handle_errors: a failure is answered 400.
handle_errors_bad_request(out) ==
  IF out.raised
    THEN Return(Response(400,
           dumps(Message(<<"An internal error occurred: ">> \o str(out.exc))).value))
    ELSE out

\* The wrapper of handle_errors: what the caller of the entry point gets.
handle_errors(out) ==
  IF out.raised
    THEN Return(Response(500,
           dumps(Message(<<"An internal error occurred: ">> \o str(out.exc))).value))
    ELSE out

(* ------------------------------ requests ------------------------------- *)

Method(m) == PyStr(<<m>>)
\* The methods a caller sends, registered or not, and an absent httpMethod.
Methods == {None} \cup {Method(m) : m \in {"GET", "POST", "PUT", "DELETE", "PATCH"}}

Event(m, p, b) == [httpMethod |-> m, path |-> PyStr(p), body |-> b]
\* An event without a path.
PathlessEvent(m, b) == [httpMethod |-> m, body |-> b]

Fields(name, description, status, createdAt) ==
  PyDict([name |-> name, description |-> description,
          status |-> status, createdAt |-> createdAt])

\* The JSON objects callers send: all four fields as strings; an integer name
\* with no description and no status; a fractional name alone.
ObjectBodies ==
  { Fields(PyStr(<<"A">>), PyStr(<<"d">>), PyStr(<<"open">>), PyStr(<<"2024-01-01">>)),
    PyDict([name |-> PyInt(<<"7">>), createdAt |-> PyStr(<<"2024-01-01">>)]),
    PyDict([name |-> PyFloat(<<"1.5">>)]) }

\* The bodies callers send: none, text that is not JSON, a JSON array, objects.
Bodies == {None, Malformed, JsonText(PyList({}))} \cup {JsonText(o) : o \in ObjectBodies}

ItemPath(id) == <<"/", "projects", "/">> \o id

\* The ids callers address: one that no create returned, and the ones create
\* returned.
ClientIds == {<<"a">>} \cup created

\* The workload of the CRUD specification, by the handler it reaches.
ClientCreates == {Event(Method("POST"), ProjectsPath, b) : b \in Bodies}
ClientLists == {Event(Method("GET"), ProjectsPath, None)}
ClientGets == {Event(Method("GET"), ItemPath(id), None) : id \in ClientIds}
ClientUpdates ==
  {Event(Method("PUT"), ItemPath(r[1]), r[2]) : r \in ClientIds \X Bodies}
ClientDeletes == {Event(Method("DELETE"), ItemPath(id), None) : id \in ClientIds}
ClientUnrouted ==
  {Event(Method("DELETE"), ProjectsPath, None),
   Event(Method("POST"), ItemPath(<<"a">>), None),
   Event(Method("GET"), <<"/", "a">>, None),
   Event(None, ProjectsPath, None)}
ClientPathless == {PathlessEvent(Method("GET"), None)}

PathSymbols == {"/", "projects", "a"}
RoutePaths == UNION {[1..k -> PathSymbols] : k \in 0..MaxPathLen}

\* The workload of the routing specification: every path, no body.
RouteEvents ==
  {Event(r[1], r[2], None) : r \in Methods \X RoutePaths}
  \cup {PathlessEvent(m, None) : m \in Methods}

(* ------------------------------- actions ------------------------------- *)

\* Before the first request.
NoRequest ==
  [event |-> <<>>, fault |-> FALSE, handler |-> NoHandler, path_parameters |-> None,
   stored |-> FALSE, raised |-> FALSE, error |-> <<>>,
   answer |-> Return(Response(0, None)), ops |-> 0]

\* The id in the item a 201 response carries.
returned_id(answer) == answer.value.body.json.v["id"].v

\* Whether an item is stored under the id the path parameters name.
addressed(path_parameters, tbl) ==
  /\ path_parameters.t = "dict"
  /\ path_parameters.v["id"].v \in DOMAIN tbl

\* One invocation of the entry point on an event that resolves to handler;
\* fault tells whether the service refuses the call of the table, if one is
\* made.  last records the request, what it resolved to, whether an item was
\* stored under the id it addresses, whether the body of lambda_handler raised,
\* what the caller got and the number of calls of the table.
Invoke(event, handler, fault) ==
  \E found \in {resolve(event)} :
  \E parameters \in {IF found.raised THEN None ELSE found.value.path_parameters} :
     /\ handler = IF found.raised THEN NoHandler ELSE found.value.handler
     /\ \E r \in {lambda_handler(event, table, uuids, fault)} :
        \E answer \in {handle_errors(r.out)} :
          /\ table' = r.table
          /\ uuids' = r.uuids
          /\ created' = IF ~answer.raised /\ answer.value.statusCode = 201
                          THEN created \cup {returned_id(answer)} ELSE created
          /\ last' = [event |-> event, fault |-> fault /\ r.ops > 0,
                      handler |-> handler,
                      path_parameters |-> parameters,
                      stored |-> addressed(parameters, table),
                      raised |-> r.out.raised,
                      error |-> IF r.out.raised THEN str(r.out.exc) ELSE <<>>,
                      answer |-> answer, ops |-> r.ops]

\* The path is absent: resolving raises.
RoutingError(E) ==
  \E event \in E : resolve(event).raised /\ Invoke(event, NoHandler, FALSE)

NotFound(E) ==
  \E event \in E : ~resolve(event).raised /\ Invoke(event, NoHandler, FALSE)

CreateProject(E) ==
  /\ uuids < MaxCreate
  /\ uuids < Len(UuidSymbols)
  /\ \E event \in E, fault \in BOOLEAN : Invoke(event, "create_project", fault)

GetAllProjects(E) ==
  \E event \in E, fault \in BOOLEAN : Invoke(event, "get_all_projects", fault)

GetProjectById(E) ==
  \E event \in E, fault \in BOOLEAN : Invoke(event, "get_project_by_id", fault)

UpdateProject(E) ==
  \E event \in E, fault \in BOOLEAN : Invoke(event, "update_project", fault)

DeleteProject(E) ==
  \E event \in E, fault \in BOOLEAN : Invoke(event, "delete_project", fault)

\* A deployed function: an empty table, no identifier drawn, no request yet.
Init ==
  /\ table = <<>>
  /\ uuids = 0
  /\ created = {}
  /\ last = NoRequest

Next ==
  \/ RoutingError(ClientPathless)
  \/ NotFound(ClientUnrouted)
  \/ CreateProject(ClientCreates)
  \/ GetAllProjects(ClientLists)
  \/ GetProjectById(ClientGets)
  \/ UpdateProject(ClientUpdates)
  \/ DeleteProject(ClientDeletes)

Spec == Init /\ [][Next]_vars

\* The routing specification: one request, of any method and path, to a table
\* that is empty or holds the item an update stored under "a".
RouteTables ==
  {<<>>,
   update_item(<<>>, <<"a">>,
               [k \in UpdateFields |-> PyStr(<<"A">>)], FALSE).table}

InitRoute ==
  /\ table \in RouteTables
  /\ uuids = 0
  /\ created = {}
  /\ last = NoRequest

NextRoute ==
  \/ last = NoRequest /\ RoutingError(RouteEvents)
  \/ last = NoRequest /\ NotFound(RouteEvents)
  \/ last = NoRequest /\ CreateProject(RouteEvents)
  \/ last = NoRequest /\ GetAllProjects(RouteEvents)
  \/ last = NoRequest /\ GetProjectById(RouteEvents)
  \/ last = NoRequest /\ UpdateProject(RouteEvents)
  \/ last = NoRequest /\ DeleteProject(RouteEvents)

SpecRoute == InitRoute /\ [][NextRoute]_vars

(* ------------------------------- claims -------------------------------- *)

Served == last # NoRequest
AnswerOf(l) == l.answer.value
BodyOf(l) == l.event["body"]
IdOf(l) == l.path_parameters.v["id"].v

\* Whether a request body is the text of a JSON object.
IsObject(b) == b.t = "str" /\ "json" \in DOMAIN b /\ b.json.t = "dict"

\* What the caller gets from GET /projects/<id> on the table tbl when the
\* service accepts the call.
FollowingGet(tbl, id) ==
  handle_errors(
    lambda_handler(Event(Method("GET"), ItemPath(id), None), tbl, 0, FALSE).out).value

MessageResponse(code, text) == Response(code, JsonText(Message(text)))

\* Whether everything stored in tbl, except under the ids in but, is stored
\* unchanged in after, and nothing else is, except under the ids in but.
SameExcept(tbl, after, but) ==
  /\ DOMAIN tbl \ but = DOMAIN after \ but
  /\ \A i \in DOMAIN tbl \ but : after[i] = tbl[i]

\* C1: the entry point never propagates a failure: every invocation returns a
\* response with exactly a statusCode and a body, and when the body of
\* lambda_handler raised (resolving, parsing, or the table refusing the call)
\* the response is 500 with the message "An internal error occurred: " followed
\* by the failure's description.
C1_NoFailurePropagates ==
  Served =>
    /\ ~last.answer.raised
    /\ DOMAIN AnswerOf(last) = {"statusCode", "body"}
    /\ last.raised =>
         AnswerOf(last) =
           MessageResponse(500, <<"An internal error occurred: ">> \o last.error)

\* C1 witness: the table refused a handler's call and the caller got a 500.
C1_Witness ==
  /\ Served
  /\ last.fault
  /\ last.raised
  /\ ~last.answer.raised
  /\ AnswerOf(last).statusCode = 500

\* Whether the symbols after /projects/ hold no slash.
IsItemPath(p) ==
  /\ startswith(p, <<"/", "projects", "/">>)
  /\ \A i \in 4..Len(p) : p[i] # "/"

\* Whether the method is registered under the pattern the path matches.
Registered(m, p) ==
  \/ p = ProjectsPath /\ m \in {Method("GET"), Method("POST")}
  \/ IsItemPath(p) /\ m \in {Method("GET"), Method("PUT"), Method("DELETE")}

\* C2: a request whose path matches no registered pattern, or matches one under
\* which its method is not registered, gets exactly 404 {"message": "Not Found"}
\* and no handler runs: no call of the table is made.
C2_UnroutedIsNotFound ==
  (Served /\ "path" \in DOMAIN last.event
          /\ ~Registered(last.event.httpMethod, last.event.path.v)) =>
    /\ ~last.raised
    /\ AnswerOf(last) = MessageResponse(404, <<"Not Found">>)
    /\ last.handler = NoHandler
    /\ last.ops = 0

\* C2 witness: GET /projects/a/ was answered 404.
C2_Witness ==
  /\ Served
  /\ last.event = Event(Method("GET"), <<"/", "projects", "/", "a", "/">>, None)
  /\ AnswerOf(last).statusCode = 404

\* The handler registered for a method under /projects/{id}.
ItemHandler(m) ==
  CASE m = Method("GET") -> "get_project_by_id"
    [] m = Method("PUT") -> "update_project"
    [] m = Method("DELETE") -> "delete_project"

\* C3: for every x without a slash, the empty x included, GET, PUT and DELETE
\* of /projects/x run get-by-id, update and delete with the path parameter id
\* bound to exactly x (a delete the table accepts removes the item under x, a
\* get the table accepts returns the item stored under x); a path with a slash
\* after /projects/x gets 404 Not Found.
C3_DynamicSegmentBinds ==
  (Served /\ "path" \in DOMAIN last.event
          /\ startswith(last.event.path.v, <<"/", "projects", "/">>)) =>
    LET p == last.event.path.v
        x == SubSeq(p, 4, Len(p))
        m == last.event.httpMethod
    IN IF IsItemPath(p)
         THEN m \in {Method("GET"), Method("PUT"), Method("DELETE")} =>
                /\ last.handler = ItemHandler(m)
                /\ last.path_parameters = PyDict([id |-> PyStr(x)])
                /\ (m = Method("DELETE") /\ ~last.raised) => x \notin DOMAIN table
                /\ (m = Method("GET") /\ ~last.raised /\ x \in DOMAIN table) =>
                     /\ AnswerOf(last).statusCode = 200
                     /\ AnswerOf(last).body.json.v["id"] = PyStr(x)
         ELSE AnswerOf(last) = MessageResponse(404, <<"Not Found">>)

\* C3 witness: GET /projects/ ran get-by-id with id bound to the empty string.
C3_Witness ==
  /\ Served
  /\ last.event = Event(Method("GET"), <<"/", "projects", "/">>, None)
  /\ last.handler = "get_project_by_id"
  /\ last.path_parameters = PyDict([id |-> PyStr(<<>>)])

\* C4: a POST /projects with a JSON-object body, when the table accepts the
\* call, returns 201 with an item whose id is under no stored item, leaves the
\* stored items as they were, and a following GET /projects/<that id> returns
\* 200 with the name, description, status and createdAt that were sent.
C4_CreateThenGet ==
  [][(last'.handler = "create_project" /\ IsObject(BodyOf(last')) /\ ~last'.fault) =>
       /\ AnswerOf(last').statusCode = 201
       /\ returned_id(last'.answer) \notin DOMAIN table
       /\ SameExcept(table, table', {returned_id(last'.answer)})
       /\ LET g == FollowingGet(table', returned_id(last'.answer))
          IN /\ g.statusCode = 200
             /\ \A k \in ItemFields :
                  g.body.json.v[k] = get(BodyOf(last').json, k).value]_vars

\* C5: a PUT /projects/<id> with a JSON-object body on a stored id, when the
\* table accepts the call, returns 200 "Project updated successfully", and a
\* following GET /projects/<id> returns the new name, description and status
\* with the id and the createdAt the item had.
C5_UpdateThenGet ==
  [][(last'.handler = "update_project" /\ last'.stored
        /\ IsObject(BodyOf(last')) /\ ~last'.fault) =>
       /\ AnswerOf(last') = MessageResponse(200, <<"Project updated successfully">>)
       /\ LET g == FollowingGet(table', IdOf(last'))
              before == python_item(table[IdOf(last')]).v
          IN /\ g.statusCode = 200
             /\ \A k \in UpdateFields :
                  g.body.json.v[k] = get(BodyOf(last').json, k).value
             /\ g.body.json.v["id"] = PyStr(IdOf(last'))
             /\ "createdAt" \in DOMAIN before =>
                  g.body.json.v["createdAt"] = before["createdAt"]]_vars

\* C6: a DELETE /projects/<id> on a stored id, when the table accepts the call,
\* returns 200 "Project deleted successfully", and a following
\* GET /projects/<id> returns 404.
C6_DeleteThenGet ==
  (Served /\ last.handler = "delete_project" /\ last.stored /\ ~last.fault) =>
    /\ AnswerOf(last) = MessageResponse(200, <<"Project deleted successfully">>)
    /\ FollowingGet(table, IdOf(last)).statusCode = 404

\* C6 witness: a stored item was deleted.
C6_Witness ==
  /\ Served
  /\ last.handler = "delete_project"
  /\ last.stored
  /\ AnswerOf(last).statusCode = 200

\* C7: after any sequence of requests, GET /projects/<id> for an id that no
\* create returned gets 404 {"message": "Project not found"}: nothing is stored
\* under such an id.
C7_NeverCreatedIsNotFound ==
  \A id \in ({<<"a">>} \cup DOMAIN table) \ created :
    FollowingGet(table, id) = MessageResponse(404, <<"Project not found">>)

\* C8: every response has a statusCode among 200, 201, 404 and 500, and every
\* response that is not 200 or 201 has a JSON object with a message as body.
C8_StatusAndMessage ==
  (Served /\ ~last.answer.raised) =>
    /\ AnswerOf(last).statusCode \in {200, 201, 404, 500}
    /\ AnswerOf(last).statusCode \notin {200, 201} =>
         /\ IsObject(AnswerOf(last).body)
         /\ "message" \in DOMAIN AnswerOf(last).body.json.v

\* C8 witness: a get-by-id of an id that is not stored was answered 404.
C8_Witness ==
  /\ Served
  /\ last.handler = "get_project_by_id"
  /\ AnswerOf(last).statusCode = 404
  /\ "message" \in DOMAIN AnswerOf(last).body.json.v

\* C9: a request answered 404 or 500 leaves the table as it was; a request
\* that resolves to no handler makes no call of the table; a create or update
\* whose body is absent or is not the text of a JSON object is answered 500
\* without a call of the table.
C9_FailureLeavesStore ==
  [][/\ AnswerOf(last').statusCode \in {404, 500} => table' = table
     /\ last'.handler = NoHandler => last'.ops = 0
     /\ (last'.handler \in {"create_project", "update_project"}
           /\ ~IsObject(BodyOf(last'))) =>
          /\ AnswerOf(last').statusCode = 500
          /\ last'.ops = 0
          /\ table' = table]_vars

\* C9 witness: an update without a body was answered 500 while items are stored.
C9_Witness ==
  /\ Served
  /\ last.handler = "update_project"
  /\ BodyOf(last) = None
  /\ AnswerOf(last).statusCode = 500
  /\ DOMAIN table # {}

\* C10: an invocation makes at most one call of the table; list and get-by-id
\* leave the table as it was; create leaves every stored item as it was and,
\* answered 201, adds exactly the item it returns; update and delete of id X
\* leave every item under another id as it was, in whatever order invocations
\* follow one another.
C10_Frame ==
  [][/\ last'.ops <= 1
     /\ last'.handler \in {NoHandler, "get_all_projects", "get_project_by_id"} =>
          table' = table
     /\ last'.handler = "create_project" =>
          /\ \A i \in DOMAIN table : i \in DOMAIN table' /\ table'[i] = table[i]
          /\ Cardinality(DOMAIN table' \ DOMAIN table) <= 1
          /\ AnswerOf(last').statusCode = 201 =>
               DOMAIN table' \ DOMAIN table = {returned_id(last'.answer)}
     /\ last'.handler \in {"update_project", "delete_project"} =>
          SameExcept(table, table', {IdOf(last')})]_vars

\* C10 witness: a create was answered 201 while two other items are stored.
C10_Witness ==
  /\ Served
  /\ last.handler = "create_project"
  /\ AnswerOf(last).statusCode = 201
  /\ Cardinality(DOMAIN table) = 3

====
